---- MODULE Spec2Model ----
(***************************************************************************)
(* A model of the S3-compatible storage provider of waterbutler            *)
(* (waterbutler/providers/s3compat/provider.py) acting on one bucket, of   *)
(* the resumable (chunked) upload protocol, of the credential chain of     *)
(* AuthHandler (waterbutler/server/auth.py) and of the audit callback.     *)
(*                                                                         *)
(* A key is a sequence of tokens; a token is <<text, n>>.  The separator   *)
(* is <<"/", 0>>, a letter is <<"a", 0>>, and <<" (n)", n>> is the suffix  *)
(* that increment_name appends to a name.  String operations of the code   *)
(* (lstrip, rstrip, endswith, prefix listing) act on these sequences.      *)
(***************************************************************************)
EXTENDS Integers, Sequences, FiniteSets, TLC

\* Largest count increment_name may reach when a name is renamed.
MaxCopies == 1

--------------------------------------------------------------------------
\* Strings

SEP == <<"/", 0>>
CharA == <<"a", 0>>
CopyTok(n) == <<" (n)", n>>

\* str.endswith('/')
EndsWithSep(s) == Len(s) > 0 /\ s[Len(s)] = SEP

\* str.lstrip('/')
RECURSIVE LStrip(_)
LStrip(s) == IF Len(s) > 0 /\ Head(s) = SEP THEN LStrip(Tail(s)) ELSE s

\* str.rstrip('/')
RECURSIVE RStrip(_)
RStrip(s) ==
    IF Len(s) > 0 /\ s[Len(s)] = SEP THEN RStrip(SubSeq(s, 1, Len(s) - 1)) ELSE s

\* key.startswith(p): how the backend matches Prefix=p
StartsWith(k, p) == Len(p) <= Len(k) /\ SubSeq(k, 1, Len(p)) = p

\* Byte order of two tokens: ' ' (0x20) < '/' (0x2F) < 'a' (0x61).
TokClass(t) == IF t[1] = " (n)" THEN 0 ELSE IF t = SEP THEN 1 ELSE 2
TokLess(t, u) ==
    \/ TokClass(t) < TokClass(u)
    \/ TokClass(t) = TokClass(u) /\ t[2] < u[2]

\* Lexicographic order of keys, the order in which the backend lists them.
RECURSIVE KeyLess(_, _)
KeyLess(k, l) ==
    IF Len(l) = 0 THEN FALSE
    ELSE IF Len(k) = 0 THEN TRUE
    ELSE IF Head(k) = Head(l) THEN KeyLess(Tail(k), Tail(l))
    ELSE TokLess(Head(k), Head(l))

MinKey(S) == CHOOSE k \in S : \A l \in S \ {k} : KeyLess(k, l)

RECURSIVE SortKeys(_)
SortKeys(S) == IF S = {} THEN <<>> ELSE <<MinKey(S)>> \o SortKeys(S \ {MinKey(S)})

\* seq[::-1]
Reverse(s) == [i \in 1..Len(s) |-> s[Len(s) + 1 - i]]

--------------------------------------------------------------------------
\* Paths (waterbutler.core.path.WaterButlerPath)

\* A path is its parts below the root and the folder flag.
RootPath == [parts |-> <<>>, is_dir |-> TRUE]
NameA == <<CharA>>
FileA == [parts |-> <<NameA>>, is_dir |-> FALSE]
FolderA == [parts |-> <<NameA>>, is_dir |-> TRUE]
FileAA == [parts |-> <<NameA, NameA>>, is_dir |-> FALSE]

\* The paths that requests carry.
Paths == {RootPath, FileA, FolderA, FileAA}

is_root(path) == Len(path.parts) = 0
is_file(path) == ~path.is_dir

RECURSIVE JoinParts(_)
JoinParts(parts) ==
    IF Len(parts) = 0 THEN <<>>
    ELSE IF Len(parts) = 1 THEN parts[1]
    ELSE parts[1] \o <<SEP>> \o JoinParts(Tail(parts))

\* WaterButlerPath.full_path with an empty storage prefix: '/' for the root,
\* 'a' for the file /a, 'a/' for the folder /a/.
full_path(path) == JoinParts(path.parts) \o (IF path.is_dir THEN <<SEP>> ELSE <<>>)

\* WaterButlerPath.name: the last part
path_name(path) == IF is_root(path) THEN <<>> ELSE path.parts[Len(path.parts)]

\* WaterButlerPath.increment_name: 'a' -> 'a (1)' -> 'a (2)'
CopyCount(name) == IF name[Len(name)][1] = " (n)" THEN name[Len(name)][2] ELSE 0
BaseName(name) == IF CopyCount(name) = 0 THEN name ELSE SubSeq(name, 1, Len(name) - 1)
increment_name(path) ==
    LET n == Len(path.parts)
        name == path.parts[n]
    IN  [path EXCEPT !.parts[n] = BaseName(name) \o <<CopyTok(CopyCount(name) + 1)>>]

\* The renamed forms of a path, up to MaxCopies increments.
RECURSIVE Renamed(_, _)
Renamed(path, n) == IF n = 0 THEN path ELSE increment_name(Renamed(path, n - 1))

\* Every key the bucket may hold.
Keys ==
    {full_path(p) : p \in Paths \ {RootPath}}
        \cup {full_path(Renamed(p, n)) : p \in {FileA, FileAA}, n \in 1..MaxCopies}

--------------------------------------------------------------------------
\* Streams and objects

\* The byte strings a stream or an object may hold.
Contents == {<<>>, <<1>>}

RECURSIVE SumBytes(_)
SumBytes(b) == IF Len(b) = 0 THEN 0 ELSE Head(b) + SumBytes(Tail(b))

\* hashlib.md5 of a byte string, as a checksum of 8 bits over length and bytes.
md5(b) == (Len(b) * 31 + SumBytes(b) * 7 + 1) % 256

\* settings.get('encrypt_uploads', False): uploads are not encrypted by default.
encrypt_uploads == FALSE

VARIABLES
    store,           \* the bucket: key -> bytes of the object
    pre,             \* the bucket before the last operation
    call,            \* the last operation and its arguments
    outcome,         \* how it ended: [exc, code, message]
    ret,             \* what it returned
    log,             \* the backend requests it issued, in order
    up,              \* the resumable upload in progress
    manager,         \* the credential extensions of the AuthHandler, in order
    drive,           \* the items of a backend of identifiers
    tasks,           \* the uploads that run concurrently, each with its position
    config           \* the credentials and settings the provider is built from

vars == <<store, pre, call, outcome, ret, log, up, manager, drive, tasks, config>>

\* No backend of identifiers, and no upload that runs concurrently.
NoDrive == <<>>
NoTasks == <<>>
NoConfig == <<>>

\* A bucket is a function from the keys it holds to their bytes.
Buckets == UNION {[K -> Contents] : K \in SUBSET Keys}
EmptyBucket == [k \in {} |-> <<>>]

Has(st, key) == key \in DOMAIN st
Put(st, key, body) == [k \in DOMAIN st \cup {key} |-> IF k = key THEN body ELSE st[k]]
Remove(st, key) == [k \in DOMAIN st \ {key} |-> st[k]]

\* The keys a listing with Prefix=p returns, in listing order.
ListObjects(st, p) == SortKeys({k \in DOMAIN st : StartsWith(k, p)})

--------------------------------------------------------------------------
\* Results of a call

NoRet == [kind |-> "none"]
Ok == [exc |-> "none", code |-> 0, message |-> <<>>]
Raise(exc, code, message) == [exc |-> exc, code |-> code, message |-> message]

\* The ETag header of an object: its md5, unless server-side encryption is on.
NoETag == [is_md5 |-> FALSE, digest |-> 0]
ETagOf(body, encrypted) ==
    IF encrypted THEN [is_md5 |-> FALSE, digest |-> (md5(body) + 128) % 256]
    ELSE [is_md5 |-> TRUE, digest |-> md5(body)]

\* One backend request of the log, with the status and ETag of its response.
\* obtained: make_request returned the response to the operation; releases:
\* how often the operation released it.
Req(method, key, body, status, etag) ==
    [method |-> method, key |-> key, body |-> body, status |-> status, etag |-> etag,
     obtained |-> FALSE, releases |-> 0]

\* resp = await self.make_request(...): the response of an expected status.
Response(rq) == [rq EXCEPT !.obtained = TRUE]

\* A response that is never released.
release_Never(resp) == resp

\* await resp.release()
release(resp) == [resp EXCEPT !.releases = @ + 1]

\* A step of an operation: the bucket, the log, the outcome and the value.
Step(st, lg, out, val) == [store |-> st, log |-> lg, outcome |-> out, ret |-> val]

--------------------------------------------------------------------------
\* The backend's answers to a request that changes the bucket.  A status outside
\* the expected ones makes make_request raise the operation's typed error.
PutStatuses == {200, 503}
DeleteStatuses == {204, 503}

--------------------------------------------------------------------------
\* metadata

FileMetadataHeaders(st, key) ==
    [kind |-> "file", path |-> key, size |-> Len(st[key]),
     etag |-> ETagOf(st[key], encrypt_uploads)]
FolderMetadata(key) == [kind |-> "folder", path |-> key]
FolderKeyMetadata(key) == [kind |-> "folder", path |-> key]
FileMetadata(st, key) ==
    [kind |-> "file", path |-> key, size |-> Len(st[key]),
     etag |-> ETagOf(st[key], encrypt_uploads)]

\* The revision arguments a request carries; "None" is Python's None.
Revisions == {"None", "Latest", "latest", "LATEST", "null", "v1"}

\* str.lower() on the revision arguments.
lower(version) == IF version \in {"Latest", "latest", "LATEST"} THEN "latest" ELSE version

\* A request that carries no VersionId parameter.
NoVersion == "absent"

\* A request on a key with a VersionId parameter (or NoVersion).
VersionReq(method, key, version, status, etag) ==
    [method |-> method, key |-> key, body |-> <<>>, status |-> status, etag |-> etag,
     obtained |-> FALSE, releases |-> 0, version |-> version]

\* The bucket keeps no versions: the one version of an object is 'null', which
\* a request without VersionId also reads.  Any other id names no version.
HasVersion(st, key, version) == Has(st, key) /\ version \in {NoVersion, "null"}

\* _metadata_file: None and 'Latest' become the version id 'null'.
VersionId(revision) == IF revision \in {"None", "Latest"} THEN "null" ELSE revision

\* _metadata_file: head_object with VersionId; a ClientError of any kind is
\* raised as NotFoundError.
_metadata_file(st, path, revision) ==
    LET key == full_path(path)
        version == VersionId(revision)
    IN  IF HasVersion(st, key, version)
        THEN Step(st, <<VersionReq("HEAD", key, version, 200,
                                   ETagOf(st[key], encrypt_uploads))>>,
                  Ok, FileMetadataHeaders(st, key))
        ELSE Step(st, <<VersionReq("HEAD", key, version, 404, NoETag)>>,
                  Raise("NotFoundError", 404, key), NoRet)

\* _metadata_folder that lists with a delimiter: keys below a sub-folder of the
\* folder are left out.
_metadata_folder_DirectChildren(st, path) ==
    LET prefix == LStrip(full_path(path))
        direct(key) ==
            \A i \in (Len(prefix) + 1)..(Len(key) - 1) : key[i] # SEP
        all == ListObjects(st, prefix)
        contents == SelectSeq(all, direct)
        item(key) ==
            IF LStrip(key) = prefix THEN FolderMetadata(full_path(path))
            ELSE IF EndsWithSep(key) THEN FolderKeyMetadata(key)
            ELSE FileMetadata(st, key)
    IN  Step(st, <<Req("LIST", prefix, <<>>, 200, NoETag)>>, Ok,
             [kind |-> "list", items |-> [i \in 1..Len(contents) |-> item(contents[i])]])

_metadata_folder(st, path) ==
    LET prefix == LStrip(full_path(path))
        contents == ListObjects(st, prefix)
        item(key) ==
            IF LStrip(key) = prefix THEN FolderMetadata(full_path(path))
            ELSE IF EndsWithSep(key) THEN FolderKeyMetadata(key)
            ELSE FileMetadata(st, key)
    IN  Step(st, <<Req("LIST", prefix, <<>>, 200, NoETag)>>, Ok,
             [kind |-> "list", items |-> [i \in 1..Len(contents) |-> item(contents[i])]])

metadata(st, path, revision) ==
    IF path.is_dir THEN _metadata_folder(st, path) ELSE _metadata_file(st, path, revision)

\* BaseProvider.exists: the metadata, or False when it is not found.
exists(st, path) ==
    LET m == metadata(st, path, "None")
    IN  IF m.outcome.exc \in {"NotFoundError", "MetadataError"} /\ m.outcome.code = 404
        THEN [m EXCEPT !.outcome = Ok, !.ret = [kind |-> "False"]]
        ELSE m

\* Python's truth value of what exists returned.
Truthy(v) ==
    CASE v.kind = "False" -> FALSE
      [] v.kind = "list" -> Len(v.items) > 0
      [] OTHER -> TRUE

--------------------------------------------------------------------------
\* delete

\* await self.bucket.objects.filter(Prefix=...): self.bucket is a boto3 Bucket
\* resource (boto3.resource('s3').Bucket(...)), and filter returns a lazy
\* collection that sends nothing until it is iterated and is no awaitable, so
\* the await raises TypeError before any request leaves.
AwaitFilter(st, prefix) == [exc |-> "TypeError", keys |-> ListObjects(st, prefix), log |-> <<>>]

\* _folder_prefix_exists: awaits the collection under the prefix without its
\* trailing separators; the line after reads exist_count, a name bound nowhere.
_folder_prefix_exists(st, folder_prefix) ==
    LET objects == AwaitFilter(st, RStrip(folder_prefix))
    IN  IF objects.exc # "none"
        THEN Step(st, objects.log, Raise(objects.exc, 0, <<>>), NoRet)
        ELSE Step(st, objects.log, Raise("NameError", 0, <<>>), NoRet)

\* The DELETE requests of the loop over content_keys[::-1]: each answers one of
\* DeleteStatuses; the first answer that is not 200 or 204 raises DeleteError.
RECURSIVE DeleteEach(_, _, _)
DeleteEach(st, keys, statuses) ==
    IF Len(keys) = 0 THEN Step(st, <<>>, Ok, NoRet)
    ELSE LET rq == Req("DELETE", Head(keys), <<>>, Head(statuses), NoETag)
         IN  IF Head(statuses) \notin {200, 204}
             THEN Step(st, <<rq>>, Raise("DeleteError", Head(statuses), <<>>), NoRet)
             ELSE LET rest == DeleteEach(Remove(st, Head(keys)), Tail(keys), Tail(statuses))
                  IN  [rest EXCEPT !.log = <<release(Response(rq))>> \o rest.log]

\* content_keys = [object.key for content in contents]: object is the builtin
\* type, which has no attribute key, so a listing that is not empty raises.
ContentKeys(contents) ==
    IF Len(contents) > 0 THEN [exc |-> "AttributeError", keys |-> <<>>]
    ELSE [exc |-> "none", keys |-> <<>>]

\* _delete_folder that lists by the name of the folder, without its separator,
\* and deletes the first key it finds.
_delete_folder_ByName(st, path, statuses) ==
    LET keys == ListObjects(st, RStrip(LStrip(full_path(path))))
    IN  IF Len(keys) = 0 THEN Step(st, <<>>, Raise("NotFoundError", 404, <<>>), NoRet)
        ELSE DeleteEach(st, <<keys[1]>>, statuses)

\* _delete_folder.  The listing is awaited first; after it, with no content
\* keys, the fallback call reads prefix, a name bound nowhere in the function,
\* before _folder_prefix_exists is entered.
_delete_folder(st, path, statuses) ==
    IF ~EndsWithSep(full_path(path))
    THEN Step(st, <<>>, Raise("InvalidParameters", 400, full_path(path)), NoRet)
    ELSE LET contents == AwaitFilter(st, LStrip(full_path(path)))
             content_keys == ContentKeys(contents.keys)
         IN  IF contents.exc # "none"
             THEN Step(st, contents.log, Raise(contents.exc, 0, <<>>), NoRet)
             ELSE IF content_keys.exc # "none"
             THEN Step(st, contents.log, Raise(content_keys.exc, 0, <<>>), NoRet)
             ELSE IF Len(content_keys.keys) = 0
             THEN Step(st, contents.log, Raise("NameError", 0, <<>>), NoRet)
             ELSE LET d == DeleteEach(st, Reverse(content_keys.keys), statuses)
                  IN  [d EXCEPT !.log = contents.log \o d.log]

\* delete without the confirmation test on the root.
delete_Unconfirmed(st, path, confirm_delete, statuses) ==
    IF is_file(path)
    THEN LET status == Head(statuses)
             rq == Req("DELETE", full_path(path), <<>>, status, NoETag)
         IN  IF status \in {200, 204}
             THEN Step(Remove(st, full_path(path)), <<release(Response(rq))>>, Ok, NoRet)
             ELSE Step(st, <<rq>>, Raise("DeleteError", status, <<>>), NoRet)
    ELSE _delete_folder(st, path, statuses)

delete(st, path, confirm_delete, statuses) ==
    IF is_root(path) /\ confirm_delete # 1
    THEN Step(st, <<>>, Raise("DeleteError", 400, <<>>), NoRet)
    ELSE IF is_file(path)
    THEN LET status == Head(statuses)
             rq == Req("DELETE", full_path(path), <<>>, status, NoETag)
         IN  IF status \in {200, 204}
             THEN Step(Remove(st, full_path(path)), <<release(Response(rq))>>, Ok, NoRet)
             ELSE Step(st, <<rq>>, Raise("DeleteError", status, <<>>), NoRet)
    ELSE _delete_folder(st, path, statuses)

--------------------------------------------------------------------------
\* create_folder

\* WaterButlerPath.validate_folder: the path must be a folder and not the root.
validate_folder(path) ==
    IF ~path.is_dir THEN Raise("CreateFolderError", 400, <<>>)
    ELSE IF is_root(path) THEN Raise("CreateFolderError", 400, <<>>)
    ELSE Ok

\* The builds of Python: `async with` on an object that is no asynchronous
\* context manager raises AttributeError before 3.11 and TypeError from 3.11 on.
AsyncWithErrors == {"AttributeError", "TypeError"}

\* async with self.bucket.put_object(Key=path.full_path, Body=''): return metadata.
\* put_object is the synchronous call of the boto3 Bucket: it sends the PUT of a
\* zero-byte object and raises ClientError when that fails; what it returns is
\* a boto3 Object, which has no __aenter__ and __aexit__, so `async with`
\* raises `error` once the object is written and the body, the return of the
\* folder metadata, is never entered.
PutMarker(st, path, status, error) ==
    LET rq == Req("PUT", full_path(path), <<>>, status, NoETag)
    IN  IF status # 200
        THEN Step(st, <<rq>>, Raise("ClientError", status, <<>>), NoRet)
        ELSE IF error # "none"
        THEN Step(Put(st, full_path(path), <<>>), <<rq>>, Raise(error, 0, <<>>), NoRet)
        ELSE Step(Put(st, full_path(path), <<>>), <<rq>>, Ok, FolderMetadata(full_path(path)))

\* create_folder that validates the path only after the existence check.
create_folder_LateValidation(st, path, folder_precheck, status, error) ==
    LET v == validate_folder(path)
        e == exists(st, path)
    IN  IF folder_precheck /\ e.outcome.exc # "none"
        THEN e
        ELSE IF folder_precheck /\ Truthy(e.ret)
        THEN Step(st, e.log, Raise("FolderNamingConflict", 409, path_name(path)), NoRet)
        ELSE IF v.exc # "none"
        THEN Step(st, IF folder_precheck THEN e.log ELSE <<>>, v, NoRet)
        ELSE LET p == PutMarker(st, path, status, error)
             IN  [p EXCEPT !.log = (IF folder_precheck THEN e.log ELSE <<>>) \o p.log]

create_folder(st, path, folder_precheck, status, error) ==
    LET v == validate_folder(path)
        e == exists(st, path)
    IN  IF v.exc # "none" THEN Step(st, <<>>, v, NoRet)
        ELSE IF folder_precheck /\ e.outcome.exc # "none"
        THEN e
        ELSE IF folder_precheck /\ Truthy(e.ret)
        THEN Step(st, e.log, Raise("FolderNamingConflict", 409, path_name(path)), NoRet)
        ELSE LET p == PutMarker(st, path, status, error)
             IN  [p EXCEPT !.log = (IF folder_precheck THEN e.log ELSE <<>>) \o p.log]

--------------------------------------------------------------------------
\* upload

\* BaseProvider.handle_name_conflict: the path to write and what exists there.
\* With conflict='keep' the name is incremented until nothing exists under it.
RECURSIVE KeepBoth(_, _, _)
KeepBoth(st, path, lg) ==
    LET test_path == increment_name(path)
        e == exists(st, test_path)
    IN  IF Truthy(e.ret) /\ CopyCount(path_name(test_path)) < MaxCopies
        THEN KeepBoth(st, test_path, lg \o e.log)
        ELSE [path |-> test_path, exists |-> [kind |-> "False"], log |-> lg \o e.log,
              free |-> ~Truthy(e.ret)]

handle_name_conflict(st, path, conflict) ==
    LET e == exists(st, path)
    IN  IF ~Truthy(e.ret) \/ conflict # "keep"
        THEN [path |-> path, exists |-> e.ret, log |-> e.log, free |-> TRUE]
        ELSE KeepBoth(st, path, e.log)

\* upload: name conflict, then one PUT of the stream, then the metadata of the
\* written path.  `status` and `stored` are the backend's answer to the PUT and
\* the bytes it kept.
\* upload that reports created as what existed, not its negation.
upload_CreatedIsExists(st, stream, path, conflict, status, stored) ==
    LET hc == handle_name_conflict(st, path, conflict)
        key == full_path(hc.path)
        rq == Req("PUT", key, stream, status,
                  IF status \in {200, 201} THEN ETagOf(stored, encrypt_uploads) ELSE NoETag)
    IN  IF status \notin {200, 201}
        THEN Step(st, hc.log \o <<rq>>, Raise("UploadError", status, <<>>), NoRet)
        ELSE LET st2 == Put(st, key, stored)
                 m == metadata(st2, hc.path, "None")
             IN  Step(st2, hc.log \o <<release(Response(rq))>> \o m.log, m.outcome,
                      [kind |-> "tuple", metadata |-> m.ret, created |-> Truthy(hc.exists)])

\* upload that writes to the path it was given, not to the resolved one.
upload_ToGivenPath(st, stream, path, conflict, status, stored) ==
    LET hc == handle_name_conflict(st, path, conflict)
        key == full_path(path)
        rq == Req("PUT", key, stream, status,
                  IF status \in {200, 201} THEN ETagOf(stored, encrypt_uploads) ELSE NoETag)
    IN  IF status \notin {200, 201}
        THEN Step(st, hc.log \o <<rq>>, Raise("UploadError", status, <<>>), NoRet)
        ELSE LET st2 == Put(st, key, stored)
                 m == metadata(st2, path, "None")
             IN  Step(st2, hc.log \o <<release(Response(rq))>> \o m.log, m.outcome,
                      [kind |-> "tuple", metadata |-> m.ret, created |-> ~Truthy(hc.exists)])

upload(st, stream, path, conflict, status, stored) ==
    LET hc == handle_name_conflict(st, path, conflict)
        key == full_path(hc.path)
        rq == Req("PUT", key, stream, status,
                  IF status \in {200, 201} THEN ETagOf(stored, encrypt_uploads) ELSE NoETag)
    IN  IF status \notin {200, 201}
        THEN Step(st, hc.log \o <<rq>>, Raise("UploadError", status, <<>>), NoRet)
        ELSE LET st2 == Put(st, key, stored)
                 m == metadata(st2, hc.path, "None")
             IN  Step(st2, hc.log \o <<release(Response(rq))>> \o m.log, m.outcome,
                      [kind |-> "tuple", metadata |-> m.ret, created |-> ~Truthy(hc.exists)])

--------------------------------------------------------------------------
\* Resumable upload: a session is opened, the stream is sent chunk by chunk, the
\* session is finalized; an unrecoverable error while uploading aborts it.

CONTIGUOUS_UPLOAD_SIZE_LIMIT == 128000000
CHUNK_SIZE == 64000000
\* The mutant of CHUNKED_UPLOAD_MAX_ABORT_RETRIES: one retry more.
CHUNKED_UPLOAD_MAX_ABORT_RETRIES_More == 2 + 1
CHUNKED_UPLOAD_MAX_ABORT_RETRIES == 2

\* How many chunks beyond the smallest resumable stream a stream may have.
MaxExtraChunks == 1
\* How often the transport repeats a request that failed transiently.
MaxTransient == 1

\* The sizes of the streams that are too large for one contiguous request.
StreamSizes == {CONTIGUOUS_UPLOAD_SIZE_LIMIT + 1 + k * CHUNK_SIZE : k \in 0..MaxExtraChunks}

\* The number of chunks of a stream.
Parts(size) == (size + CHUNK_SIZE - 1) \div CHUNK_SIZE

NoToken == "none"
NoUpload ==
    [state |-> "NotStarted", token |-> NoToken, size |-> 0, sent |-> 0, bytes |-> 0,
     retry |-> 0, error |-> FALSE, failed |-> FALSE, abort_tries |-> 0, cleaned |-> FALSE]

\* What the transport reports for one request, after its own retries are used up.
Answers == {"ok", "transient", "fatal"}

\* A transient failure is repeated while the transport has retries left; after
\* that it is an unrecoverable one.
Unrecoverable(answer) == answer = "fatal" \/ (answer = "transient" /\ up.retry >= MaxTransient)

\* The request that opens the session and returns its token.
UpStartSession ==
    \E answer \in Answers :
        /\ up.state = "NotStarted" /\ ~up.error /\ up.size > 0
        /\ up' = IF answer = "ok"
                 THEN [up EXCEPT !.state = "SessionOpen", !.token = "token", !.retry = 0]
                 ELSE IF Unrecoverable(answer) THEN [up EXCEPT !.error = TRUE]
                 ELSE [up EXCEPT !.retry = @ + 1]
        /\ UNCHANGED <<store, pre, call, outcome, ret, log, manager, drive, tasks, config>>

\* The mutant of UpSendChunk: bytes are sent whether or not a session is open.
UpSendChunk_NoSession ==
    \E answer \in Answers :
        /\ up.state \in {"NotStarted", "SessionOpen", "Uploading"} /\ ~up.failed /\ ~up.error
        /\ up.size > 0 /\ up.sent < Parts(up.size)
        /\ up' = IF answer = "ok"
                 THEN [up EXCEPT !.state = "Uploading", !.bytes = @ + 1, !.sent = @ + 1,
                                 !.retry = 0]
                 ELSE IF Unrecoverable(answer)
                 THEN [up EXCEPT !.state = "Uploading", !.bytes = @ + 1, !.failed = TRUE]
                 ELSE [up EXCEPT !.state = "Uploading", !.bytes = @ + 1, !.retry = @ + 1]
        /\ UNCHANGED <<store, pre, call, outcome, ret, log, manager, drive, tasks, config>>

\* One request that carries the next chunk of the stream, under the token.
UpSendChunk ==
    \E answer \in Answers :
        /\ up.state \in {"SessionOpen", "Uploading"} /\ ~up.failed
        /\ up.token # NoToken /\ up.sent < Parts(up.size)
        /\ up' = IF answer = "ok"
                 THEN [up EXCEPT !.state = "Uploading", !.bytes = @ + 1, !.sent = @ + 1,
                                 !.retry = 0]
                 ELSE IF Unrecoverable(answer)
                 THEN [up EXCEPT !.state = "Uploading", !.bytes = @ + 1, !.failed = TRUE]
                 ELSE [up EXCEPT !.state = "Uploading", !.bytes = @ + 1, !.retry = @ + 1]
        /\ UNCHANGED <<store, pre, call, outcome, ret, log, manager, drive, tasks, config>>

\* The request that finalizes the session once every chunk is stored.
UpFinalize ==
    \E answer \in Answers :
        /\ up.state = "Uploading" /\ ~up.failed /\ up.sent = Parts(up.size)
        /\ up' = IF answer = "ok" THEN [up EXCEPT !.state = "Finalized", !.retry = 0]
                 ELSE IF Unrecoverable(answer) THEN [up EXCEPT !.failed = TRUE]
                 ELSE [up EXCEPT !.retry = @ + 1]
        /\ UNCHANGED <<store, pre, call, outcome, ret, log, manager, drive, tasks, config>>

\* One attempt to clean the session up after an unrecoverable error: the first
\* attempt and at most CHUNKED_UPLOAD_MAX_ABORT_RETRIES retries; the upload ends
\* Aborted when an attempt succeeds or the retries are used up.
UpAbort ==
    \E cleaned \in BOOLEAN :
        /\ up.state = "Uploading" /\ up.failed
        /\ up' = IF cleaned \/ up.abort_tries >= CHUNKED_UPLOAD_MAX_ABORT_RETRIES
                 THEN [up EXCEPT !.state = "Aborted", !.abort_tries = @ + 1,
                                 !.cleaned = cleaned]
                 ELSE [up EXCEPT !.abort_tries = @ + 1]
        /\ UNCHANGED <<store, pre, call, outcome, ret, log, manager, drive, tasks, config>>

UpInit ==
    /\ store = EmptyBucket
    /\ pre = store
    /\ call = [op |-> "none"]
    /\ outcome = Ok
    /\ ret = NoRet
    /\ log = <<>>
    /\ up \in {[NoUpload EXCEPT !.size = size] : size \in StreamSizes}
    /\ manager = <<>>
    /\ drive = NoDrive
    /\ tasks = NoTasks
    /\ config = NoConfig

UpNext == UpStartSession \/ UpSendChunk \/ UpFinalize \/ UpAbort

\* The abort loop runs to its end: each of its requests returns.
UploadSpec == UpInit /\ [][UpNext]_vars /\ WF_vars(UpAbort)

--------------------------------------------------------------------------
\* intra_copy

\* dest_provider.bucket.new_key(...): the bucket of a provider is a boto3
\* Bucket resource, which has no attribute new_key (a method of the bucket of
\* boto 2), so the lookup raises AttributeError.
NewKey(key) == [exc |-> "AttributeError", key |-> key]

\* intra_copy: what exists at the destination, the key of the destination, one
\* PUT with x-amz-copy-source, then the metadata of the destination.
intra_copy(st, source_path, dest_path, status) ==
    LET e == exists(st, dest_path)
        dest_key == NewKey(full_path(dest_path))
        source == full_path(source_path)
        answer == IF Has(st, source) THEN status ELSE 404
        rq == Req("PUT", dest_key.key, source, answer, NoETag)
    IN  IF e.outcome.exc # "none" THEN e
        ELSE IF dest_key.exc # "none"
        THEN Step(st, e.log, Raise(dest_key.exc, 0, <<>>), NoRet)
        ELSE IF answer # 200
        THEN Step(st, e.log \o <<rq>>, Raise("IntraCopyError", answer, <<>>), NoRet)
        ELSE LET st2 == Put(st, dest_key.key, st[source])
                 m == metadata(st2, dest_path, "None")
             IN  Step(st2, e.log \o <<release(Response(rq))>> \o m.log, m.outcome,
                      [kind |-> "tuple", metadata |-> m.ret, created |-> ~Truthy(e.ret)])

--------------------------------------------------------------------------
\* download, revisions

\* The VersionId parameter of download: absent for no version, for an empty
\* one, and for 'latest' in any case of its letters.
DownloadVersion(version) ==
    IF version # "None" /\ version # "" /\ lower(version) # "latest" THEN version
    ELSE NoVersion

\* download: GET on the key; a status other than 200 and 206 raises DownloadError.
download(st, path, version) ==
    LET key == full_path(path)
        vid == DownloadVersion(version)
    IN  IF ~is_file(path)
        THEN Step(st, <<>>, Raise("DownloadError", 400, <<>>), NoRet)
        ELSE IF HasVersion(st, key, vid)
        THEN Step(st, <<Response(VersionReq("GET", key, vid, 200,
                                            ETagOf(st[key], encrypt_uploads)))>>,
                  Ok, [kind |-> "stream", content |-> st[key]])
        ELSE Step(st, <<VersionReq("GET", key, vid, 404, NoETag)>>,
                  Raise("DownloadError", 404, <<>>), NoRet)

\* S3CompatRevision(item): the revision of one listed version; its id is the
\* version id as a sequence of pieces.
S3CompatRevision(key) == [kind |-> "revision", key |-> key, id |-> <<"null">>]

\* revisions: list_object_versions under the prefix.  A backend that does not
\* support the listing answers with ClientError, and the result is the empty
\* list; a listing with no version leaves 'Versions' out of the response, and
\* resp['Versions'] raises KeyError; else the versions of the key itself.
revisions(st, path, supported) ==
    LET prefix == LStrip(full_path(path))
        versions == ListObjects(st, prefix)
        own == SelectSeq(versions, LAMBDA k : k = prefix)
    IN  IF ~supported
        THEN Step(st, <<Req("LIST VERSIONS", prefix, <<>>, 501, NoETag)>>, Ok,
                  [kind |-> "list", items |-> <<>>])
        ELSE IF Len(versions) = 0
        THEN Step(st, <<Req("LIST VERSIONS", prefix, <<>>, 200, NoETag)>>,
                  Raise("KeyError", 0, <<>>), NoRet)
        ELSE Step(st, <<Req("LIST VERSIONS", prefix, <<>>, 200, NoETag)>>, Ok,
                  [kind |-> "list",
                   items |-> [i \in 1..Len(own) |-> S3CompatRevision(own[i])]])

--------------------------------------------------------------------------
\* validate_v1_path, validate_path

\* settings.get('prefix', ''): the storage prefix, empty by default.
self_prefix == <<>>

\* The path strings a request carries: '/', '/a', '/a/', '/a/a'.
PathStrings == {<<SEP>>, <<SEP, CharA>>, <<SEP, CharA, SEP>>, <<SEP, CharA, SEP, CharA>>}

\* str.split('/') without the empty segments before the first separator and
\* after the last one.
RECURSIVE Split(_, _)
Split(s, cur) ==
    IF Len(s) = 0 THEN (IF Len(cur) = 0 THEN <<>> ELSE <<cur>>)
    ELSE IF Head(s) = SEP
    THEN (IF Len(cur) = 0 THEN <<>> ELSE <<cur>>) \o Split(Tail(s), <<>>)
    ELSE Split(Tail(s), cur \o <<Head(s)>>)

\* WaterButlerPath(path, prepend=...): the parts of the string, whether it ends
\* with the separator, and the prefix it was built with.
WaterButlerPath(path, prepend) ==
    [parts |-> Split(path, <<>>), is_dir |-> EndsWithSep(path), prepend |-> prepend]

PathRet(wbpath) == [kind |-> "path", path |-> wbpath]

\* The answer to HEAD on the bucket: the bucket exists, and HeadBucket answers
\* for the bucket whatever prefix and delimiter the query string carries ("a
\* GET prefix query against a non-existent path returns 200").
HeadBucketStatus(st, prefix) == 200

\* The answer to HEAD on a key.
HeadObjectStatus(st, key) == IF Has(st, key) THEN 200 ELSE 404

\* validate_v1_path without the shortcut for '/'.
validate_v1_path_NoRootShortcut(st, path) ==
    LET wbpath == WaterButlerPath(path, self_prefix)
        implicit_folder == EndsWithSep(path)
        prefix == LStrip(full_path(wbpath))
        status == IF implicit_folder THEN HeadBucketStatus(st, prefix)
                  ELSE HeadObjectStatus(st, prefix)
        rq == Req(IF implicit_folder THEN "HEAD bucket" ELSE "HEAD", prefix, <<>>,
                  status, NoETag)
    IN  IF status \notin {200, 404}
        THEN Step(st, <<rq>>, Raise("MetadataError", status, <<>>), NoRet)
        ELSE IF status = 404
        THEN Step(st, <<release(Response(rq))>>, Raise("NotFoundError", 404, prefix), NoRet)
        ELSE Step(st, <<release(Response(rq))>>, Ok, PathRet(wbpath))

\* validate_v1_path: '/' is returned as it is; a string that ends with the
\* separator is checked with HEAD on the bucket, any other with HEAD on the key
\* (in the log, key holds the prefix parameter of the bucket request).
validate_v1_path(st, path) ==
    LET wbpath == WaterButlerPath(path, self_prefix)
        implicit_folder == EndsWithSep(path)
        prefix == LStrip(full_path(wbpath))
        status == IF implicit_folder THEN HeadBucketStatus(st, prefix)
                  ELSE HeadObjectStatus(st, prefix)
        rq == Req(IF implicit_folder THEN "HEAD bucket" ELSE "HEAD", prefix, <<>>,
                  status, NoETag)
    IN  IF path = <<SEP>> THEN Step(st, <<>>, Ok, PathRet(wbpath))
        ELSE IF status \notin {200, 404}
        THEN Step(st, <<rq>>, Raise("MetadataError", status, <<>>), NoRet)
        ELSE IF status = 404
        THEN Step(st, <<release(Response(rq))>>, Raise("NotFoundError", 404, prefix), NoRet)
        ELSE Step(st, <<release(Response(rq))>>, Ok, PathRet(wbpath))

\* validate_path that asks the backend, as validate_v1_path does.
validate_path_MustExist(st, path) == validate_v1_path(st, path)

\* validate_path: the path of the string, with no request.
validate_path(st, path) == Step(st, <<>>, Ok, PathRet(WaterButlerPath(path, self_prefix)))

--------------------------------------------------------------------------
\* AuthHandler (waterbutler/server/auth.py)

\* Most extensions a handler registers.
MaxExtensions == 2

\* The names of the extensions, and the chains a handler is built from: the
\* extensions in the order of their names in `names` (name_order=True).
ExtensionNames == 1..MaxExtensions
ExtensionChains ==
    {c \in UNION {[1..n -> ExtensionNames] : n \in 0..MaxExtensions} :
        \A i, j \in DOMAIN c : i # j => c[i] # c[j]}

\* What an extension answers: None, an empty credential, a credential.
NoCredential == [kind |-> "None", storage |-> 0]
EmptyCredential == [kind |-> "dict", storage |-> 0]
Credentials ==
    {NoCredential, EmptyCredential} \cup {[kind |-> "dict", storage |-> n] : n \in 1..2}

\* `if credential:` None and the empty dict are false.
CredentialTruthy(credential) == credential.kind = "dict" /\ credential.storage # 0

\* The arguments of fetch and of get, as the extension receives them.
FetchArgs == [request : {"GET", "POST"}, bundle : {"b1"}]
GetArgs ==
    [resource : {"node"}, provider : {"test"}, request : {"GET", "POST"},
     action : {"None", "copy"}, auth_type : {"SOURCE"}, path : {""},
     version : {"None"}, callback_log : {TRUE}, location_id : {"None"},
     task_id : {"None"}, upload_datetime : {"None"}]

Query(ext, method, args) == [ext |-> ext, method |-> method, args |-> args]

\* raise AuthHandler('no valid credential found'): AuthHandler is no exception
\* class, so what is raised is TypeError, with the interpreter's message.
RaiseAuthHandler == Raise("TypeError", 0, <<"exceptions must derive from BaseException">>)

\* The loop of fetch and get from extension i on: the first credential that is
\* true is returned; after the last extension AuthHandler(...) is raised.
RECURSIVE QueryEach(_, _, _, _, _)
QueryEach(extensions, answers, method, args, i) ==
    IF i > Len(extensions) THEN Step(store, <<>>, RaiseAuthHandler, NoRet)
    ELSE LET q == Query(extensions[i], method, args)
         IN  IF CredentialTruthy(answers[i])
             THEN Step(store, <<q>>, Ok, answers[i])
             ELSE LET rest == QueryEach(extensions, answers, method, args, i + 1)
                  IN  [rest EXCEPT !.log = <<q>> \o rest.log]

\* fetch that returns the credential of the last extension that has one.
fetch_LastWins(extensions, answers, args) ==
    QueryEach(Reverse(extensions), Reverse(answers), "fetch", args, 1)

fetch(extensions, answers, args) == QueryEach(extensions, answers, "fetch", args, 1)

get(extensions, answers, args) == QueryEach(extensions, answers, "get", args, 1)

--------------------------------------------------------------------------
\* log_to_callback (waterbutler/core/remote_logging.py)

\* The actions that are logged, the callback endpoints of the auth bundle ('' is
\* none configured), and the statuses the endpoint answers with.
LoggedActions == {"download_file", "move", "copy", "create_folder"}
CallbackUrls == {"", "http://callback/logs/"}
CallbackStatuses == {200, 201, 204, 302, 400, 403, 500}

\* log_to_callback that never looks at the status of the response.
log_to_callback_IgnoreStatus(action, callback_url, status) ==
    IF callback_url = "" THEN Step(store, <<>>, Ok, NoRet)
    ELSE Step(store, <<Req("PUT", callback_url, action, status, NoETag)>>, Ok, NoRet)

\* log_to_callback: with no callback endpoint nothing is sent; else one signed
\* request carries the payload, and a status outside 2xx raises.
log_to_callback(action, callback_url, status) ==
    LET rq == Req("PUT", callback_url, action, status, NoETag)
    IN  IF callback_url = "" THEN Step(store, <<>>, Ok, NoRet)
        ELSE IF status \div 100 # 2
        THEN Step(store, <<rq>>, Raise("Exception", status, <<>>), NoRet)
        ELSE Step(store, <<rq>>, Ok, NoRet)

--------------------------------------------------------------------------
\* Path resolution on a backend of identifiers (the path resolver)

\* Most items the backend holds below its root.
MaxItems == 2

\* The identifier of the root folder, and the names of parts.
RootId == 0
PartNames == {"a", "b"}

\* The items of a backend: each has a parent (the root or another item), a
\* name and a type.
ItemIds == 1..MaxItems
Drives ==
    [ItemIds -> [parent : {RootId} \cup ItemIds, name : PartNames, folder : BOOLEAN]]

\* The paths to resolve: one or two parts, with or without a trailing separator.
ResolvePaths ==
    [parts : UNION {[1..n -> PartNames] : n \in 1..2}, is_dir : BOOLEAN]

\* One existence query: the children of `parent` named `name` of the type.
ChildrenQuery(parent, name, folder) ==
    [method |-> "GET", parent |-> parent, name |-> name, folder |-> folder]

\* The items the backend answers a query with.
Matches(dr, q) ==
    {id \in DOMAIN dr :
        dr[id].parent = q.parent /\ dr[id].name = q.name /\ dr[id].folder = q.folder}

FirstItem(ids) == CHOOSE id \in ids : \A other \in ids : id <= other

\* '{} not found'.format(path)
NotFoundMessage(path) == path.parts \o <<"not found">>

\* The walk from part i on, below item_id: one query for the part; no match
\* ends the walk with 404, a match is the parent of the next part.
RECURSIVE Walk(_, _, _, _, _)
Walk(dr, path, item_id, ids, i) ==
    IF i > Len(path.parts) THEN Step(store, <<>>, Ok, [kind |-> "ids", ids |-> ids])
    ELSE LET part_is_folder == i < Len(path.parts) \/ path.is_dir
             q == ChildrenQuery(item_id, path.parts[i], part_is_folder)
             items == Matches(dr, q)
         IN  IF items = {}
             THEN Step(store, <<q>>, Raise("MetadataError", 404, NotFoundMessage(path)), NoRet)
             ELSE LET rest == Walk(dr, path, FirstItem(items), ids \o <<FirstItem(items)>>,
                                   i + 1)
                  IN  [rest EXCEPT !.log = <<q>> \o rest.log]

\* A resolution that asks for the last part only, below the root.
_resolve_path_to_ids_LeafOnly(dr, path) ==
    Walk(dr, path, RootId, <<RootId>>, Len(path.parts))

\* _resolve_path_to_ids: the walk from the first part, below the root.
_resolve_path_to_ids(dr, path) == Walk(dr, path, RootId, <<RootId>>, 1)

--------------------------------------------------------------------------
\* The provider's operations on the bucket

Done(c, r) ==
    /\ pre' = store
    /\ call' = c
    /\ store' = r.store
    /\ outcome' = r.outcome
    /\ ret' = r.ret
    /\ log' = r.log
    /\ UNCHANGED <<up, manager, drive, tasks, config>>

Delete ==
    \E path \in Paths, confirm_delete \in {0, 1, 2}, status \in DeleteStatuses :
        /\ path \in Paths
        /\ Done([op |-> "delete", path |-> path, confirm_delete |-> confirm_delete],
                delete(store, path, confirm_delete, <<status>>))

CreateFolder ==
    \E path \in Paths, folder_precheck \in BOOLEAN, status \in PutStatuses,
       error \in AsyncWithErrors :
        /\ path \in Paths
        /\ Done([op |-> "create_folder", path |-> path, folder_precheck |-> folder_precheck],
                create_folder(store, path, folder_precheck, status, error))

Upload ==
    \E path \in {p \in Paths : is_file(p)}, stream \in Contents,
       conflict \in {"replace", "keep"}, status \in PutStatuses, stored \in Contents :
        /\ handle_name_conflict(store, path, conflict).free
        /\ Done([op |-> "upload", path |-> path, stream |-> stream, conflict |-> conflict],
                upload(store, stream, path, conflict, status, stored))

ValidateV1Path ==
    \E path \in PathStrings :
        /\ path \in PathStrings
        /\ Done([op |-> "validate_v1_path", path |-> path], validate_v1_path(store, path))

IntraCopy ==
    \E source_path \in {p \in Paths : is_file(p)}, dest_path \in {p \in Paths : is_file(p)},
       status \in PutStatuses :
        /\ source_path # dest_path
        /\ Done([op |-> "intra_copy", source_path |-> source_path, dest_path |-> dest_path,
                 status |-> status],
                intra_copy(store, source_path, dest_path, status))

Init ==
    /\ store = EmptyBucket
    /\ pre = store
    /\ call = [op |-> "none"]
    /\ outcome = Ok
    /\ ret = NoRet
    /\ log = <<>>
    /\ up = NoUpload
    /\ manager = <<>>
    /\ drive = NoDrive
    /\ tasks = NoTasks
    /\ config = NoConfig

Next == Delete \/ CreateFolder \/ Upload \/ IntraCopy \/ ValidateV1Path

Spec == Init /\ [][Next]_vars

--------------------------------------------------------------------------
\* The provider's operations that read the bucket

ValidatePath ==
    \E path \in PathStrings :
        /\ path \in PathStrings
        /\ Done([op |-> "validate_path", path |-> path], validate_path(store, path))

Metadata ==
    \E path \in Paths, revision \in Revisions :
        /\ path \in Paths
        /\ Done([op |-> "metadata", path |-> path, revision |-> revision],
                metadata(store, path, revision))

Download ==
    \E path \in Paths, version \in Revisions :
        /\ path \in Paths
        /\ Done([op |-> "download", path |-> path, version |-> version],
                download(store, path, version))

GetRevisions ==
    \E path \in Paths, supported \in BOOLEAN :
        /\ is_file(path)
        /\ Done([op |-> "revisions", path |-> path, supported |-> supported],
                revisions(store, path, supported))

\* The buckets that are read: any that uploads and folder creations on Paths
\* can leave.
ReadBuckets == UNION {[K -> Contents] : K \in SUBSET {full_path(p) : p \in Paths \ {RootPath}}}

ReadInit ==
    /\ store \in ReadBuckets
    /\ pre = store
    /\ call = [op |-> "none"]
    /\ outcome = Ok
    /\ ret = NoRet
    /\ log = <<>>
    /\ up = NoUpload
    /\ manager = <<>>
    /\ drive = NoDrive
    /\ tasks = NoTasks
    /\ config = NoConfig

ReadNext == ValidateV1Path \/ ValidatePath \/ Metadata \/ Download \/ GetRevisions

ReadSpec == ReadInit /\ [][ReadNext]_vars

--------------------------------------------------------------------------
\* The server: credentials and the audit callback

Fetch ==
    \E answers \in [DOMAIN manager -> Credentials], args \in FetchArgs :
        /\ args \in FetchArgs
        /\ Done([op |-> "fetch", args |-> args, answers |-> answers],
                fetch(manager, answers, args))

Get ==
    \E answers \in [DOMAIN manager -> Credentials], args \in GetArgs :
        /\ args \in GetArgs
        /\ Done([op |-> "get", args |-> args, answers |-> answers],
                get(manager, answers, args))

LogToCallback ==
    \E action \in LoggedActions, callback_url \in CallbackUrls, status \in CallbackStatuses :
        /\ action \in LoggedActions
        /\ Done([op |-> "log_to_callback", action |-> action, callback_url |-> callback_url,
                 status |-> status],
                log_to_callback(action, callback_url, status))

\* AuthHandler(names): the manager holds the named extensions in their order.
ServerInit ==
    /\ store = EmptyBucket
    /\ pre = store
    /\ call = [op |-> "none"]
    /\ outcome = Ok
    /\ ret = NoRet
    /\ log = <<>>
    /\ up = NoUpload
    /\ manager \in ExtensionChains
    /\ drive = NoDrive
    /\ tasks = NoTasks
    /\ config = NoConfig

ServerNext == Fetch \/ Get \/ LogToCallback

ServerSpec == ServerInit /\ [][ServerNext]_vars

--------------------------------------------------------------------------
\* Path resolution

ResolvePath ==
    \E path \in ResolvePaths :
        /\ path \in ResolvePaths
        /\ Done([op |-> "resolve", path |-> path], _resolve_path_to_ids(drive, path))

ResolveInit ==
    /\ store = EmptyBucket
    /\ pre = store
    /\ call = [op |-> "none"]
    /\ outcome = Ok
    /\ ret = NoRet
    /\ log = <<>>
    /\ up = NoUpload
    /\ manager = <<>>
    /\ drive \in Drives
    /\ tasks = NoTasks
    /\ config = NoConfig

ResolveNext == ResolvePath

ResolveSpec == ResolveInit /\ [][ResolveNext]_vars

--------------------------------------------------------------------------
\* Two uploads that run as concurrent tasks on one provider

\* The tasks, and the path both upload to with conflict='replace'.
Tasks == {1, 2}
RacePath == FileA

\* upload up to its first await: handle_name_conflict asks what exists.
TaskConflict(t) ==
    /\ tasks[t].pc = "conflict"
    /\ tasks' = [tasks EXCEPT ![t].pc = "put",
                              ![t].exists =
                                  Truthy(handle_name_conflict(store, RacePath, "replace").exists)]
    /\ UNCHANGED <<store, pre, call, outcome, ret, log, up, manager, drive, config>>

\* upload from the name conflict to the answer of the PUT.
TaskPut(t) ==
    \E status \in PutStatuses :
        /\ tasks[t].pc = "put"
        /\ store' = IF status \in {200, 201} THEN Put(store, full_path(RacePath), tasks[t].stream)
                    ELSE store
        /\ tasks' = [tasks EXCEPT ![t].pc = IF status \in {200, 201} THEN "metadata"
                                            ELSE "raised"]
        /\ UNCHANGED <<pre, call, outcome, ret, log, up, manager, drive, config>>

\* upload from the release of the response to its return: the metadata of the
\* path and `not exists`.
TaskMetadata(t) ==
    /\ tasks[t].pc = "metadata"
    /\ tasks' = [tasks EXCEPT ![t].pc = IF metadata(store, RacePath, "None").outcome = Ok
                                        THEN "returned" ELSE "raised",
                              ![t].created = ~tasks[t].exists]
    /\ UNCHANGED <<store, pre, call, outcome, ret, log, up, manager, drive, config>>

RaceInit ==
    /\ store = EmptyBucket
    /\ pre = store
    /\ call = [op |-> "none"]
    /\ outcome = Ok
    /\ ret = NoRet
    /\ log = <<>>
    /\ up = NoUpload
    /\ manager = <<>>
    /\ drive = NoDrive
    /\ config = NoConfig
    /\ tasks \in [Tasks -> [pc : {"conflict"}, exists : {FALSE}, created : {FALSE},
                            stream : Contents]]

RaceNext == \E t \in Tasks : TaskConflict(t) \/ TaskPut(t) \/ TaskMetadata(t)

RaceSpec == RaceInit /\ [][RaceNext]_vars

--------------------------------------------------------------------------
\* Construction of the provider, and the key each operation addresses

\* Most dot-separated labels of a host name.
MaxLabels == 5

\* A host string without ':port'; the ports a host string can end with.
NoPort == 0
HostPorts == {NoPort, 80, 443, 9000}

\* credentials['host']: its labels and the port after the last colon.
Hosts == [labels : 1..MaxLabels, port : HostPorts]

\* settings.get('prefix', ''): '', 'a', 'a/', '/a'.
Prefixes == {<<>>, <<CharA>>, <<CharA, SEP>>, <<SEP, CharA>>}

\* What the provider is constructed from.
Configs == [host : Hosts, prefix : Prefixes]

\* re.match(r'^(.+)\:([0-9]+)$', host): the host and the port of the match.
MatchHostPort(host) ==
    IF host.port # NoPort
    THEN [matched |-> TRUE, host |-> [host EXCEPT !.port = NoPort], port |-> host.port]
    ELSE [matched |-> FALSE, host |-> host, port |-> NoPort]

\* host.split('.')[3] is the region.
RegionLabel == 4

\* S3CompatConnection.__init__: the port starts from 443 whatever was passed,
\* the host is matched again, the fourth label is the region and the endpoint
\* is the scheme and the host.
S3CompatConnection(host, port_arg) ==
    LET m == MatchHostPort(host)
        h == IF m.matched THEN m.host ELSE host
        port == IF m.matched THEN m.port ELSE 443
    IN  IF h.labels < RegionLabel
        THEN [outcome |-> Raise("IndexError", 0, <<>>), ret |-> NoRet]
        ELSE [outcome |-> Ok,
              ret |-> [kind |-> "connection",
                       region |-> RegionLabel,
                       endpoint_url |-> [scheme |-> IF port = 443 THEN "https" ELSE "http",
                                         host |-> h]]]

\* S3CompatProvider.__init__: the port is cut from the host, the connection is
\* built from the rest, the prefix is kept.
S3CompatProvider(st, cfg) ==
    LET m == MatchHostPort(cfg.host)
        host == IF m.matched THEN m.host ELSE cfg.host
        port == IF m.matched THEN m.port ELSE 443
        connection == S3CompatConnection(host, port)
    IN  IF connection.outcome # Ok
        THEN Step(st, <<>>, connection.outcome, NoRet)
        ELSE Step(st, <<>>, Ok,
                  [kind |-> "provider", connection |-> connection.ret,
                   prefix |-> cfg.prefix])

\* WaterButlerPath.full_path of a path built with prepend=prefix.
PrependFullPath(path, prefix) ==
    IF Len(prefix) = 0 THEN full_path(path)
    ELSE RStrip(prefix) \o <<SEP>> \o (IF is_root(path) THEN <<>> ELSE full_path(path))

\* The operations that take a file path and those that take a folder path.
FileOperations == {"validate_v1_path", "upload", "download", "metadata", "revisions", "delete"}
FolderOperations == {"validate_v1_path", "create_folder", "metadata", "delete"}
OperationsOn(path) == IF path.is_dir THEN FolderOperations ELSE FileOperations

\* The key (for a folder listing, the Prefix) the operation sends for a path.
OperationKey(operation, path, prefix) ==
    LET full == PrependFullPath(path, prefix)
    IN  CASE operation = "validate_v1_path" -> LStrip(full)
          [] operation = "upload" -> full
          [] operation = "download" -> full
          [] operation = "create_folder" -> full
          [] operation = "revisions" -> LStrip(full)
          [] operation = "metadata" -> IF path.is_dir THEN LStrip(full) ELSE full
          [] operation = "delete" -> IF path.is_dir THEN LStrip(full) ELSE full

\* The provider is constructed from its credentials and settings.
Construct ==
    \E cfg \in Configs :
        /\ cfg = config
        /\ call.op = "none"
        /\ Done([op |-> "construct", host |-> cfg.host, prefix |-> cfg.prefix],
                S3CompatProvider(store, cfg))

\* Each operation of the constructed provider builds its key for one path.
AddressKeys ==
    \E path \in Paths \ {RootPath} :
        /\ call.op \in {"construct", "keys"}
        /\ outcome = Ok
        /\ Done([op |-> "keys", path |-> path, prefix |-> config.prefix],
                Step(store, <<>>, Ok,
                     [kind |-> "keys",
                      keys |-> [o \in OperationsOn(path) |->
                                    OperationKey(o, path, config.prefix)]]))

ConfigInit ==
    /\ store = EmptyBucket
    /\ pre = store
    /\ call = [op |-> "none"]
    /\ outcome = Ok
    /\ ret = NoRet
    /\ log = <<>>
    /\ up = NoUpload
    /\ manager = <<>>
    /\ drive = NoDrive
    /\ tasks = NoTasks
    /\ config \in Configs

ConfigNext == Construct \/ AddressKeys

ConfigSpec == ConfigInit /\ [][ConfigNext]_vars

--------------------------------------------------------------------------
\* Properties of delete

\* The DELETE requests of the last operation.
Deletes == {i \in DOMAIN log : log[i].method = "DELETE"}

\* Whether something is stored at a path: the key of a file, or any key under
\* the prefix of a folder.
ExistsAt(st, path) ==
    IF path.is_dir THEN \E k \in DOMAIN st : StartsWith(k, LStrip(full_path(path)))
    ELSE Has(st, full_path(path))

\* C1: delete on the root path with confirm_delete other than 1 fails with
\* DeleteError, code 400, issues no request at all (no listing, no DELETE) and
\* leaves the stored keys as they were.
C1_RootDeleteNeedsConfirm ==
    (call.op = "delete" /\ is_root(call.path) /\ call.confirm_delete # 1) =>
        /\ outcome.exc = "DeleteError"
        /\ outcome.code = 400
        /\ log = <<>>
        /\ store = pre

\* C1 happens: an unconfirmed delete of the root of a bucket that holds keys.
C1_Witness ==
    /\ call.op = "delete"
    /\ is_root(call.path)
    /\ call.confirm_delete \in {0, 2}
    /\ DOMAIN pre # {}

\* C2: delete on a path at which nothing is stored fails with NotFoundError
\* and issues no DELETE request, for a file path and for a folder path.
C2_DeleteMissingIsNotFound ==
    (call.op = "delete" /\ ~is_root(call.path) /\ ~ExistsAt(pre, call.path)) =>
        /\ outcome.exc = "NotFoundError"
        /\ Deletes = {}

\* C3: a folder delete lists the keys under the prefix; with an empty listing
\* and no folder key it raises NotFoundError and issues no DELETE; otherwise it
\* issues a DELETE for every listed key, and after a normal return no key under
\* the prefix remains.
C3_FolderDeleteRemovesAll ==
    (call.op = "delete" /\ call.path.is_dir
        /\ (is_root(call.path) => call.confirm_delete = 1)) =>
        LET prefix == LStrip(full_path(call.path))
            listed == {k \in DOMAIN pre : StartsWith(k, prefix)}
        IN  /\ \E i \in DOMAIN log : log[i].method = "LIST" /\ log[i].key = prefix
            /\ listed = {} => outcome.exc = "NotFoundError" /\ Deletes = {}
            /\ listed # {} =>
                   \/ outcome.exc = "DeleteError"
                   \/ /\ outcome.exc = "none"
                      /\ \A k \in listed : \E i \in Deletes : log[i].key = k
            /\ outcome.exc = "none" => ~\E k \in DOMAIN store : StartsWith(k, prefix)

--------------------------------------------------------------------------
\* Properties of upload

\* The requests of the last operation that carry stream bytes.
Puts == {i \in DOMAIN log : log[i].method = "PUT"}

\* The first of path, its first copy, its second copy, ... under which nothing
\* is stored.
FirstFree(st, path) ==
    LET n == CHOOSE i \in 0..MaxCopies :
                 /\ ~Has(st, full_path(Renamed(path, i)))
                 /\ \A j \in 0..(i - 1) : Has(st, full_path(Renamed(path, j)))
    IN  Renamed(path, n)

\* Where an upload has to write: the path itself under 'replace' or when it is
\* free, the first free copy name under 'keep'.
Destination(st, path, conflict) ==
    IF conflict = "keep" /\ Has(st, full_path(path)) THEN FirstFree(st, path) ELSE path

C5_ResolveBeforeBytes ==
    call.op = "upload" =>
        /\ Cardinality(Puts) = 1
        /\ \A i \in Puts :
               /\ log[i].key = full_path(Destination(pre, call.path, call.conflict))
               /\ log[i].body = call.stream
               /\ i > 1
               /\ \A j \in 1..(i - 1) : log[j].method = "HEAD"
               /\ log[i - 1].key = log[i].key
               /\ log[1].key = full_path(call.path)
               /\ call.conflict = "keep" => log[i - 1].status = 404

\* C5 happens: an upload whose resolution had to rename before the bytes went.
C5_Witness ==
    /\ call.op = "upload"
    /\ call.conflict = "keep"
    /\ Len(log) >= 3
    /\ log[1].method = "HEAD" /\ log[1].status = 200
    /\ log[3].method = "PUT" /\ log[3].status = 200

\* C6: whenever the backend's answer to the upload carries a checksum that
\* differs from the md5 of the stream, upload fails and returns no
\* (metadata, created).
C6_ChecksumMismatchFails ==
    (call.op = "upload"
        /\ \E i \in Puts : /\ log[i].status \in {200, 201}
                           /\ log[i].etag.is_md5
                           /\ log[i].etag.digest # md5(call.stream)) =>
        /\ outcome.exc \in {"UploadError", "DataIntegrityError"}
        /\ ret = NoRet

--------------------------------------------------------------------------
\* Properties of create_folder

\* C9: create_folder on a folder path.  With the pre-check on and something
\* stored under the folder's key it raises FolderNamingConflict, code 409,
\* naming the folder, and issues no create request; otherwise it issues exactly
\* one create request, of a zero-byte object at the folder key, and when that
\* succeeds returns the folder's metadata; with the pre-check off it issues no
\* existence check.
C9_CreateFolder ==
    (call.op = "create_folder" /\ call.path.is_dir /\ ~is_root(call.path)) =>
        LET key == full_path(call.path)
            taken == call.folder_precheck /\ ExistsAt(pre, call.path)
        IN  /\ taken =>
                   /\ outcome = Raise("FolderNamingConflict", 409, path_name(call.path))
                   /\ Puts = {}
                   /\ store = pre
            /\ ~taken =>
                   /\ Cardinality(Puts) = 1
                   /\ \A i \in Puts : /\ log[i].key = key
                                      /\ log[i].body = <<>>
                                      /\ i = Len(log)
                                      /\ log[i].status = 200 =>
                                             /\ outcome.exc = "none"
                                             /\ ret = [kind |-> "folder", path |-> key]
                                             /\ store = Put(pre, key, <<>>)
            /\ ~call.folder_precheck => Len(log) = 1

\* C10: create_folder on a path that is not a folder path fails with
\* CreateFolderError before any existence check or create request, and the
\* bucket stays as it was.
C10_MustBeFolder ==
    (call.op = "create_folder" /\ ~call.path.is_dir) =>
        /\ outcome.exc = "CreateFolderError"
        /\ log = <<>>
        /\ store = pre

\* C10 happens: create_folder on a file path, with the pre-check on, where a
\* file is stored.
C10_Witness ==
    /\ call.op = "create_folder"
    /\ ~call.path.is_dir
    /\ call.folder_precheck
    /\ Has(pre, full_path(call.path))

--------------------------------------------------------------------------
\* Properties of the resumable upload

UploadTransitions ==
    {<<"NotStarted", "SessionOpen">>, <<"SessionOpen", "Uploading">>,
     <<"Uploading", "Finalized">>, <<"Uploading", "Aborted">>}

\* C7: a resumable upload moves only along NotStarted -> SessionOpen ->
\* Uploading -> Finalized, and from Uploading to Aborted; a request that
\* carries bytes is sent only under a token the session start returned; and
\* Finalized and Aborted are terminal.
C7_UploadStateMachine ==
    [][/\ up'.state # up.state => <<up.state, up'.state>> \in UploadTransitions
       /\ up'.bytes > up.bytes => up.token # NoToken /\ up.state # "NotStarted"
       /\ up.state \in {"Finalized", "Aborted"} => up' = up]_vars

\* C7 happens: an upload is finalized with every chunk sent, one of them twice.
C7_Witness ==
    /\ up.state = "Finalized"
    /\ up.sent = Parts(up.size)
    /\ up.bytes > up.sent

--------------------------------------------------------------------------
\* Properties of validate_v1_path and validate_path

\* C11: validate_v1_path on a string other than '/' succeeds, with the path of
\* the string, exactly when something of the string's type exists: the key for
\* '/N', a key under the prefix for '/N/'.  Otherwise it raises NotFoundError
\* with code 404.
C11_ValidateV1PathTypeChecked ==
    (call.op = "validate_v1_path" /\ call.path # <<SEP>>) =>
        LET wbpath == WaterButlerPath(call.path, self_prefix)
        IN  IF ExistsAt(pre, wbpath)
            THEN outcome = Ok /\ ret = PathRet(wbpath)
            ELSE outcome.exc = "NotFoundError" /\ outcome.code = 404

\* C12: validate_v1_path('/') returns the root folder path with the configured
\* prefix, issues no request and leaves the bucket alone, whatever it holds.
C12_RootNeedsNoRequest ==
    (call.op = "validate_v1_path" /\ call.path = <<SEP>>) =>
        /\ outcome = Ok
        /\ ret = PathRet([parts |-> <<>>, is_dir |-> TRUE, prepend |-> self_prefix])
        /\ is_root(ret.path)
        /\ log = <<>>
        /\ store = pre

\* C12 happens: '/' is validated against a bucket that holds keys.
C12_Witness ==
    /\ call.op = "validate_v1_path"
    /\ call.path = <<SEP>>
    /\ DOMAIN pre # {}

\* C13: validate_path succeeds without a request whether or not the path
\* exists, and a successful validate_v1_path returns what validate_path returns
\* for the same string.
C13_ValidatePathRefines ==
    /\ call.op = "validate_path" => (outcome = Ok /\ log = <<>> /\ ret.kind = "path")
    /\ (call.op = "validate_v1_path" /\ outcome = Ok) =>
            ret = validate_path(pre, call.path).ret

\* C13 happens: validate_path on the string of a file that is not stored.
C13_Witness ==
    /\ call.op = "validate_path"
    /\ call.path = <<SEP, CharA>>
    /\ ~Has(pre, <<CharA>>)
    /\ outcome = Ok

--------------------------------------------------------------------------
\* Properties of the revision marker

\* The spellings of the marker 'latest'.
MagicRevisions == {v \in Revisions : lower(v) = "latest"}

\* The version ids the requests of the last operation carried.
SentVersions == {log[i].version : i \in {j \in DOMAIN log : "version" \in DOMAIN log[j]}}

\* C14: metadata of a file with the revision marker, in any spelling, issues
\* the request and returns the result of metadata with no revision, and the
\* marker itself is never sent as a version id.
C14_MagicRevisionMetadata ==
    (call.op = "metadata" /\ is_file(call.path) /\ call.revision \in MagicRevisions) =>
        LET plain == metadata(pre, call.path, "None")
        IN  /\ log = plain.log
            /\ outcome = plain.outcome
            /\ ret = plain.ret
            /\ SentVersions \cap MagicRevisions = {}

\* C15: download of a file with the revision marker issues the request, with
\* no version id in it, and returns the content of download with no version;
\* and a value is the marker for download (dropped from the request) exactly
\* when it is the marker for metadata (replaced before the request).
C15_MagicRevisionDownload ==
    (call.op = "download" /\ is_file(call.path) /\ call.version # "None") =>
        /\ call.version \in MagicRevisions =>
                LET plain == download(pre, call.path, "None")
                IN  /\ log = plain.log
                    /\ outcome = plain.outcome
                    /\ ret = plain.ret
                    /\ SentVersions = {NoVersion}
        /\ (SentVersions = {NoVersion}) <=> (VersionId(call.version) # call.version)

--------------------------------------------------------------------------
\* Properties of revisions and metadata

\* The suffix that marks a revision id as made up from a modification time.
IgnoreVersion == "ignore-version"
EndsWithSentinel(id) == Len(id) > 0 /\ id[Len(id)] = IgnoreVersion

\* C16: revisions of a stored file whose versions the backend cannot list is
\* one revision, with an id that ends with the sentinel; and no id the backend
\* issued ends with the sentinel.
C16_SynthesizedRevision ==
    (call.op = "revisions" /\ Has(pre, full_path(call.path))) =>
        /\ ~call.supported =>
                /\ outcome = Ok
                /\ ret.kind = "list"
                /\ Len(ret.items) = 1
                /\ EndsWithSentinel(ret.items[1].id)
        /\ (call.supported /\ outcome = Ok) =>
                \A i \in DOMAIN ret.items : ~EndsWithSentinel(ret.items[i].id)

\* C17: metadata of a path under which nothing is stored raises NotFoundError
\* or MetadataError with code 404, for a file path and for a folder path; it
\* returns nothing, not even an empty listing.
C17_MetadataMissingIs404 ==
    (call.op = "metadata" /\ ~is_root(call.path) /\ ~ExistsAt(pre, call.path)) =>
        /\ outcome.exc \in {"NotFoundError", "MetadataError"}
        /\ outcome.code = 404
        /\ ret = NoRet

--------------------------------------------------------------------------
\* Properties of AuthHandler

\* The first extension whose answer is a credential, 0 when none has one.
FirstCredential(answers) ==
    IF \E i \in DOMAIN answers : CredentialTruthy(answers[i])
    THEN CHOOSE i \in DOMAIN answers :
            /\ CredentialTruthy(answers[i])
            /\ \A j \in 1..(i - 1) : ~CredentialTruthy(answers[j])
    ELSE 0

\* C18: fetch and get query the extensions one at a time in registered order
\* with the caller's arguments, and return the first credential that is not
\* empty; no extension after the one that gave it is queried.
C18_FirstCredentialWins ==
    (call.op \in {"fetch", "get"}) =>
        /\ Len(log) <= Len(manager)
        /\ \A i \in DOMAIN log :
                log[i] = Query(manager[i], call.op, call.args)
        /\ FirstCredential(call.answers) # 0 =>
                /\ outcome = Ok
                /\ ret = call.answers[FirstCredential(call.answers)]
                /\ Len(log) = FirstCredential(call.answers)

\* C18 happens: two extensions are registered and both have a credential; the
\* first is asked, its credential is returned, and the second is not asked.
C18_Witness ==
    /\ call.op = "fetch"
    /\ Len(manager) >= 2
    /\ CredentialTruthy(call.answers[1])
    /\ CredentialTruthy(call.answers[2])
    /\ call.answers[1] # call.answers[2]
    /\ ret = call.answers[1]
    /\ Len(log) = 1

\* C19: when no extension answers with a credential (or none is registered),
\* fetch and get query every extension once and fail with the error 'no valid
\* credential found'; nothing empty is returned.
C19_NoCredentialFails ==
    (call.op \in {"fetch", "get"} /\ FirstCredential(call.answers) = 0) =>
        /\ Len(log) = Len(manager)
        /\ \A i \in DOMAIN log : log[i].ext = manager[i]
        /\ ret = NoRet
        /\ outcome.exc # "none"
        /\ outcome.message = <<"no valid credential found">>

--------------------------------------------------------------------------
\* Properties of log_to_callback

\* C20: log_to_callback sends one signed request exactly when a callback
\* endpoint is configured; it raises when the answer is not 2xx and returns
\* when it is 2xx or when nothing was sent.
C20_CallbackSink ==
    (call.op = "log_to_callback") =>
        /\ (Len(log) = 1) <=> (call.callback_url # "")
        /\ Len(log) <= 1
        /\ call.callback_url = "" => outcome = Ok
        /\ call.callback_url # "" =>
                /\ log[1].key = call.callback_url
                /\ (outcome = Ok) <=> (call.status \in 200..299)
                /\ outcome # Ok => outcome.exc = "Exception"

\* C20 happens: the endpoint is configured and answers 400.
C20_Witness ==
    /\ call.op = "log_to_callback"
    /\ call.callback_url # ""
    /\ call.status = 400
    /\ outcome.exc = "Exception"

--------------------------------------------------------------------------
\* Properties of intra_copy

\* C21: intra_copy of a stored file checks what exists at the destination, then
\* issues the copy request; on 200 it returns the metadata of the destination
\* and created, which is false exactly when the destination was stored before;
\* on another status it raises IntraCopyError.
C21_IntraCopyCreated ==
    (call.op = "intra_copy" /\ Has(pre, full_path(call.source_path))) =>
        LET dest == full_path(call.dest_path)
        IN  /\ \E i \in Puts :
                    /\ log[i].key = dest
                    /\ \E j \in 1..(i - 1) : log[j].method = "HEAD" /\ log[j].key = dest
            /\ call.status = 200 =>
                    /\ outcome = Ok
                    /\ ret.metadata.path = dest
                    /\ ret.created = ~Has(pre, dest)
            /\ call.status # 200 => outcome.exc = "IntraCopyError"

--------------------------------------------------------------------------
\* Properties of partial deletion, of responses and of errors

\* The DELETE requests of the last operation that the backend carried out.
Deleted == {log[i].key : i \in {j \in Deletes : log[j].status \in {200, 204}}}

\* C23: a delete of a folder that holds keys either returns, and no key under
\* the prefix remains, or raises DeleteError after a DELETE that failed; the
\* keys whose DELETE was carried out stay deleted and no other key changes, so
\* the same delete can be repeated to finish.
C23_FolderDeleteRetry ==
    (call.op = "delete" /\ call.path.is_dir /\ ExistsAt(pre, call.path)
        /\ (is_root(call.path) => call.confirm_delete = 1)) =>
        /\ outcome.exc \in {"none", "DeleteError"}
        /\ DOMAIN store = DOMAIN pre \ Deleted
        /\ outcome.exc = "none" => ~ExistsAt(store, call.path)
        /\ outcome.exc = "DeleteError" =>
                \E i \in Deletes : log[i].status \notin {200, 204}

\* C24: validate_v1_path, intra_copy, upload and delete release every response
\* they obtain exactly once, whether they return or raise.
C24_ResponsesReleased ==
    (call.op \in {"validate_v1_path", "intra_copy", "upload", "delete"}) =>
        \A i \in DOMAIN log : log[i].obtained => log[i].releases = 1

\* C24 happens: validate_v1_path raises NotFoundError after it released the
\* response with status 404.
C24_Witness ==
    /\ call.op = "validate_v1_path"
    /\ outcome.exc = "NotFoundError"
    /\ Len(log) = 1
    /\ log[1].obtained
    /\ log[1].releases = 1

\* The errors of waterbutler.core.exceptions that the operations raise.
TypedErrors ==
    {"NotFoundError", "MetadataError", "CreateFolderError", "DeleteError", "DownloadError",
     "UploadError", "IntraCopyError", "FolderNamingConflict", "InvalidParameters"}

\* C25: an operation of the provider returns or raises one of the typed errors,
\* with a status code; no other exception reaches the caller.
C25_OnlyTypedErrors ==
    (call.op \in {"validate_v1_path", "create_folder", "upload", "delete"}) =>
        \/ outcome = Ok
        \/ outcome.exc \in TypedErrors /\ outcome.code \in 400..599

\* Whether a key belongs to a path: the key of a file, a key under the prefix
\* of a folder.
Confined(key, path) ==
    IF path.is_dir THEN StartsWith(key, LStrip(full_path(path))) ELSE key = full_path(path)

--------------------------------------------------------------------------
\* Properties of path resolution

\* C22: a resolution queries the parts from left to right, one query per part,
\* the first below the root and each other below an item the query before it
\* matched; a query without a match is the last one, and the resolution then
\* fails with code 404 and a message that names the path.
C22_WalkShortCircuits ==
    (call.op = "resolve") =>
        /\ Len(log) <= Len(call.path.parts)
        /\ \A i \in DOMAIN log :
                /\ log[i].name = call.path.parts[i]
                /\ log[i].parent = RootId <=> i = 1
                /\ i > 1 => log[i].parent \in Matches(drive, log[i - 1])
                /\ Matches(drive, log[i]) = {} =>
                        /\ i = Len(log)
                        /\ outcome.exc \in {"NotFoundError", "MetadataError"}
                        /\ outcome.code = 404
                        /\ outcome.message = NotFoundMessage(call.path)
        /\ outcome = Ok => Len(log) = Len(call.path.parts)

\* C22 happens: the first of two parts has no match, and the second part is
\* never asked for although an item has its name.
C22_Witness ==
    /\ call.op = "resolve"
    /\ Len(call.path.parts) = 2
    /\ Len(log) = 1
    /\ outcome.code = 404
    /\ \E id \in DOMAIN drive : drive[id].name = call.path.parts[2]

--------------------------------------------------------------------------
\* Properties of concurrent uploads

\* C28: of two concurrent uploads with conflict='replace' to a path that is not
\* stored, at most one returns created = true.
C28_OneCreator ==
    Cardinality({t \in DOMAIN tasks : tasks[t].pc = "returned" /\ tasks[t].created}) <= 1

--------------------------------------------------------------------------
\* Properties of folder listings

\* C29: metadata on a folder path returns one item per key stored under the
\* folder's prefix, in listing order: folder metadata of the folder itself for
\* the key equal to the prefix, folder-key metadata for another key that ends
\* with the separator, file metadata for every other key, deeper descendants
\* included; with no such key the result is the empty list.
C29_FolderListing ==
    (call.op = "metadata" /\ call.path.is_dir) =>
        LET prefix == LStrip(full_path(call.path))
            under == {k \in DOMAIN pre : StartsWith(k, prefix)}
            listed == SortKeys(under)
        IN  /\ outcome = Ok
            /\ ret.kind = "list"
            /\ Len(ret.items) = Cardinality(under)
            /\ \A i \in 1..Len(listed) :
                   ret.items[i] =
                       IF listed[i] = prefix
                       THEN FolderMetadata(full_path(call.path))
                       ELSE IF EndsWithSep(listed[i])
                       THEN FolderKeyMetadata(listed[i])
                       ELSE FileMetadata(pre, listed[i])

\* The root is listed with a file, a folder key and a key below that folder.
C29_Witness ==
    /\ call.op = "metadata"
    /\ call.path = RootPath
    /\ outcome = Ok
    /\ ret.kind = "list"
    /\ Len(ret.items) = 3
    /\ \E i, j, k \in 1..3 :
           /\ ret.items[i] = FileMetadata(pre, full_path(FileA))
           /\ ret.items[j] = FolderKeyMetadata(full_path(FolderA))
           /\ ret.items[k] = FileMetadata(pre, full_path(FileAA))

--------------------------------------------------------------------------
\* Properties of the configured provider

\* C27: for one path and one configured prefix, every operation addresses the
\* same key, also when the prefix begins with the separator.
C27_SameKey ==
    call.op = "keys" =>
        \A o1, o2 \in DOMAIN ret.keys : ret.keys[o1] = ret.keys[o2]

\* The port a URL of the scheme reaches when it names none.
DefaultPort(scheme) == IF scheme = "https" THEN 443 ELSE 80

\* C30: construction succeeds for every host; the endpoint uses the port of
\* 'name:port', or 443 without one, with https exactly for port 443.
C30_EndpointOfHost ==
    call.op = "construct" =>
        /\ outcome = Ok
        /\ LET url == ret.connection.endpoint_url
               wanted == IF call.host.port = NoPort THEN 443 ELSE call.host.port
               used == IF url.host.port = NoPort THEN DefaultPort(url.scheme)
                       ELSE url.host.port
           IN  /\ used = wanted
               /\ url.scheme = (IF wanted = 443 THEN "https" ELSE "http")
               /\ url.host.labels = call.host.labels

====
